---------------------------- MODULE Spec2Model ----------------------------
(***************************************************************************)
(* A model of bin/cm.js, the build and release orchestrator of the         *)
(* codemirror.next repository: the package registry (Pkg, packages,        *)
(* buildPackages, packageNames), the compiler's resolver override          *)
(* (customResolve), the bundler's externality predicate (external), the    *)
(* command dispatch (start), the batch build (build, tsBuild, runRollup,   *)
(* install) and the dev pipeline (devserver, startServer, tsWatch).        *)
(*                                                                         *)
(* JavaScript strings are TLA+ strings; a regular expression of the source *)
(* is an operator that walks the string character by character.            *)
(***************************************************************************)
EXTENDS Naturals, Sequences, FiniteSets, TLC

VARIABLES
  pc,                  \* where the process is: load, start, a command, exited
  packages,            \* the Pkg objects constructed so far (core.concat(nonCore))
  fsName, fsEntry,     \* the file system: the one package directory that differs
  command, args,       \* process.argv[2] and process.argv.slice(3)
  unhandledRejections, \* the runtime's policy for a rejected promise nobody handles
  exitCode,            \* the process's exit status, read once pc is exited
  awaited,             \* whether build()'s promise reaches start's catch handler
  tsOutcome,           \* what tsBuild met: "notrun" before it ran, then one of TsOutcomes
  cfgIdx, step,        \* runRollup: the descriptor being bundled and the step in it
  written,             \* runRollup: the files written, <<descriptor, "file" or "map">>
  failedAt,            \* runRollup: the descriptor whose bundler step threw, or 0
  phase,               \* devserver: each lane's place in its bundling cycle
  open,                \* devserver: each lane's unclosed bundling result handles
  cycleLog,            \* devserver: what each lane reported in its current cycle
  response,            \* startServer: the last HTTP response
  tsWatching,          \* tsWatch: the compiler watcher's state
  callFn, callArg, callRet \* the last library call made by the compiler or the bundler

procVars == <<pc, packages, fsName, fsEntry, command, args, unhandledRejections,
              exitCode, awaited, tsOutcome, cfgIdx, step, written, failedAt>>
devVars  == <<phase, open, cycleLog, response, tsWatching>>
callVars == <<callFn, callArg, callRet>>
vars     == <<procVars, devVars, callVars>>

-----------------------------------------------------------------------------
(* Strings and the character classes of the regular expressions.           *)

Char(s, i) == SubSeq(s, i, i)

StartsWith(s, p) == Len(s) >= Len(p) /\ SubSeq(s, 1, Len(p)) = p

EndsWith(s, p) == Len(s) >= Len(p) /\ SubSeq(s, Len(s) - Len(p) + 1, Len(s)) = p

\* \w of a JavaScript regular expression without the u flag: [A-Za-z0-9_]
WordChars ==
  {"a","b","c","d","e","f","g","h","i","j","k","l","m","n","o","p","q","r","s","t",
   "u","v","w","x","y","z","A","B","C","D","E","F","G","H","I","J","K","L","M","N",
   "O","P","Q","R","S","T","U","V","W","X","Y","Z","0","1","2","3","4","5","6","7",
   "8","9","_"}

IsWordChar(c) == c \in WordChars

\* path.join of plain segments
Join(a, b) == a \o "/" \o b

\* let root = join(__dirname, "..")
Root == "/codemirror.next"

Null == "<null>"

Undefined == [kind |-> "undefined"]

-----------------------------------------------------------------------------
(* The package registry.                                                   *)

\* /^[^.]+\.ts$/.test(f)
IsSourceFile(f) ==
  /\ Len(f) >= 4
  /\ EndsWith(f, ".ts")
  /\ \A i \in 1..(Len(f) - 3) : Char(f, i) # "."

\* name.replace(/^(theme-|lang-)/, "")
StripPrefix(name) ==
  IF StartsWith(name, "theme-") THEN SubSeq(name, 7, Len(name))
  ELSE IF StartsWith(name, "lang-") THEN SubSeq(name, 6, Len(name))
  ELSE name

\* MainScript looking for the package's full name, its theme- or lang- prefix kept
MainScriptNoStrip(name, files) ==
  IF Cardinality(files) = 1 THEN CHOOSE f \in files : TRUE
  ELSE IF "index.ts" \in files THEN "index.ts"
  ELSE IF (name \o ".ts") \in files THEN name \o ".ts"
  ELSE Null

\* the main script the constructor picks among the filtered files, or Null
MainScript(name, files) ==
  IF Cardinality(files) = 1 THEN CHOOSE f \in files : TRUE
  ELSE IF "index.ts" \in files THEN "index.ts"
  ELSE IF (StripPrefix(name) \o ".ts") \in files THEN StripPrefix(name) \o ".ts"
  ELSE Null

\* new Pkg(name), given what fs.readdirSync(join(dir, "src")) answers:
\* [ok |-> TRUE, entries |-> the directory's entries] or [ok |-> FALSE] (it throws)
Pkg(name, dirent) ==
  IF name = "legacy-modes"
  THEN [kind |-> "pkg", name |-> name, dir |-> Join(Root, name), main |-> Null]
  ELSE IF ~dirent.ok
  THEN [kind |-> "throw", message |-> "ENOENT: " \o Join(Join(Root, name), "src")]
  ELSE LET files == {f \in dirent.entries : IsSourceFile(f)}
           main  == MainScript(name, files)
       IN IF main = Null
          THEN [kind |-> "throw", message |-> "Couldn't find a main script for " \o name]
          ELSE [kind |-> "pkg", name |-> name, dir |-> Join(Root, name),
                main |-> Join(Join(Join(Root, name), "src"), main)]

core ==
  <<"state", "text", "view", "commands", "history", "collab", "gutter", "rangeset",
    "language", "language-data", "fold", "matchbrackets", "closebrackets", "panel",
    "tooltip", "search", "lint", "highlight", "stream-parser", "autocomplete",
    "comment", "rectangular-selection", "basic-setup">>

nonCore ==
  <<"lang-javascript", "lang-java", "lang-json", "lang-cpp", "lang-python", "lang-css",
    "lang-html", "lang-sql", "lang-rust", "lang-xml", "lang-markdown", "legacy-modes",
    "theme-one-dark">>

\* the names in the order of core.concat(nonCore)
DeclaredNames == core \o nonCore

\* buildPackages = packages.filter(p => p.main)
buildPackages(pkgs) == SelectSeq(pkgs, LAMBDA p : p.main # Null)

\* packageNames[id], an object without a prototype: a registered name or undefined
packageNames(pkgs, id) ==
  IF \E i \in 1..Len(pkgs) : pkgs[i].name = id
  THEN pkgs[CHOOSE i \in 1..Len(pkgs) :
              pkgs[i].name = id /\ \A j \in (i + 1)..Len(pkgs) : pkgs[j].name # id]
  ELSE Undefined

\* a checkout in which every package's src holds its index.ts
PlainDir == [ok |-> TRUE, entries |-> {"index.ts", "README.md"}]

\* the registry of that checkout
PlainRegistry == [i \in 1..Len(DeclaredNames) |-> Pkg(DeclaredNames[i], PlainDir)]

-----------------------------------------------------------------------------
(* The resolver override and the externality predicate.                    *)

\* /^@codemirror\/(\w+)$/.exec(name): whether it matches, and its group 1
SiblingMatch(name) ==
  IF /\ StartsWith(name, "@codemirror/")
     /\ Len(name) > 12
     /\ \A i \in 13..Len(name) : IsWordChar(Char(name, i))
  THEN [matched |-> TRUE, group |-> SubSeq(name, 13, Len(name))]
  ELSE [matched |-> FALSE, group |-> ""]

\* ts.resolveModuleName(name, parent, options, host).resolvedModule: the compiler's own
TsResolveModuleName(name) == [kind |-> "default", tsResolveModuleName |-> name]

\* the body of names.map in host.resolveModuleNames
ResolveName(pkgs, name) ==
  LET cm  == SiblingMatch(name)
      pkg == IF cm.matched THEN packageNames(pkgs, cm.group) ELSE Undefined
  IN IF pkg # Undefined
     THEN [kind |-> "resolved", resolvedFileName |-> pkg.main,
           isExternalLibraryImport |-> FALSE]
     ELSE TsResolveModuleName(name)

\* host.resolveModuleNames(names, ...)
resolveModuleNames(pkgs, names) == [i \in 1..Len(names) |-> ResolveName(pkgs, names[i])]

\* /^(\.?\/|\w:)/.test(id)
PathLike(id) ==
  \/ Len(id) >= 1 /\ Char(id, 1) = "/"
  \/ Len(id) >= 2 /\ Char(id, 1) = "." /\ Char(id, 2) = "/"
  \/ Len(id) >= 2 /\ IsWordChar(Char(id, 1)) /\ Char(id, 2) = ":"

\* external without its exception for the runtime-support helper
externalNoShim(id) == ~PathLike(id)

\* function external(id)
external(id) == id # "tslib" /\ ~PathLike(id)

\* pkg.main.replace(/\.ts$/, ext)
ReplaceTs(main, ext) ==
  IF EndsWith(main, ".ts") THEN SubSeq(main, 1, Len(main) - 3) \o ext ELSE main

rollupConfig(pkg) ==
  [lane |-> "code", pkg |-> pkg.name, input |-> ReplaceTs(pkg.main, ".js"),
   external |-> "external",
   output |-> [format |-> "esm", file |-> Join(Join(pkg.dir, "dist"), "index.js"),
               sourcemap |-> TRUE]]

rollupDeclConfig(pkg) ==
  [lane |-> "decl", pkg |-> pkg.name, input |-> ReplaceTs(pkg.main, ".d.ts"),
   external |-> "external",
   output |-> [format |-> "esm", file |-> Join(Join(pkg.dir, "dist"), "index.d.ts"),
               sourcemap |-> FALSE]]

\* the bundler asking a descriptor's externality predicate about an import
ConfigExternal(config, id) == IF config.external = "external" THEN external(id) ELSE FALSE

-----------------------------------------------------------------------------
(* The process: module load, start, the commands, the batch build.         *)

\* process.argv[2] when the command line has none
NoCommand == "<undefined>"

\* the command lines tried
Commands ==
  {NoCommand, "packages", "build", "devserver", "release", "install", "commit", "push",
   "run", "--help", "bogus", "toString", "constructor", "valueOf", "__proto__"}

ArgLists == {<<>>, <<"--ssh">>, <<"x">>, <<"">>}

\* the package directory whose state differs from a plain checkout, and how
OddDirs == {"state", "lang-python", "legacy-modes", "theme-one-dark"}

OddEntries ==
  {PlainDir,
   [ok |-> FALSE, entries |-> {}],
   [ok |-> TRUE, entries |-> {}],
   [ok |-> TRUE, entries |-> {"python.ts", "helpers.ts"}],
   [ok |-> TRUE, entries |-> {"one-dark.ts", "helpers.ts", ".hidden.ts"}]}

\* fs.readdirSync(join(dir, "src")) of package name
readdirSync(name) == IF name = fsName THEN fsEntry ELSE PlainDir

\* fs.existsSync(p.dir)
existsSync(name) == ~(name = fsName /\ ~fsEntry.ok)

\* the functions the object literal of start inherits from Object.prototype
InheritedFns ==
  {"constructor", "toString", "toLocaleString", "valueOf", "hasOwnProperty",
   "isPrototypeOf", "propertyIsEnumerable", "__defineGetter__", "__defineSetter__",
   "__lookupGetter__", "__lookupSetter__"}

\* the object literal of start indexed by the command: one of its nine functions, a
\* function it inherits, Object.prototype itself for __proto__, or undefined
cmdFn(cmd) ==
  CASE cmd = "packages"    -> "listPackages"
    [] cmd = "build"       -> "build"
    [] cmd = "devserver"   -> "devserver"
    [] cmd = "release"     -> "release"
    [] cmd = "install"     -> "install"
    [] cmd = "commit"      -> "commit"
    [] cmd = "push"        -> "push"
    [] cmd = "run"         -> "runCmd"
    [] cmd = "--help"      -> "help"
    [] cmd \in InheritedFns -> "Object.prototype." \o cmd
    [] cmd = "__proto__"   -> "Object.prototype"
    [] OTHER               -> NoCommand

\* cmdFn.length: the parameters before a default or a rest parameter; an object
\* has none, and undefined > n is false
FnLength(fn) ==
  IF fn \in {"Object.prototype.__defineGetter__", "Object.prototype.__defineSetter__"}
  THEN 2
  ELSE IF fn \in {"runCmd", "Object.prototype.constructor",
                  "Object.prototype.hasOwnProperty", "Object.prototype.isPrototypeOf",
                  "Object.prototype.propertyIsEnumerable",
                  "Object.prototype.__lookupGetter__", "Object.prototype.__lookupSetter__"}
  THEN 1
  ELSE 0

\* cmdFn.apply(null, args) of an inherited function returns: Object(...), toString
\* and isPrototypeOf of a string do; the others convert this = null to an object
\* and throw, and Object.prototype has no apply
InheritedReturns(fn) ==
  fn \in {"Object.prototype.constructor", "Object.prototype.toString",
          "Object.prototype.isPrototypeOf"}

\* assertInstalled passes
Installed(pkgs) == \A i \in 1..Len(pkgs) : existsSync(pkgs[i].name)

\* the descriptors build hands to runRollup
Configs(pkgs) ==
  LET b == buildPackages(pkgs)
  IN [i \in 1..Len(b) |-> rollupConfig(b[i])] \o [i \in 1..Len(b) |-> rollupDeclConfig(b[i])]

\* LoadResult going on to the next package after a constructor threw
LoadResultSkipping(pkgs, p) ==
  IF p.kind = "throw"
  THEN [pc |-> "start", packages |-> pkgs, exitCode |-> 0]
  ELSE [pc |-> IF Len(pkgs) + 1 = Len(DeclaredNames) THEN "start" ELSE "load",
        packages |-> Append(pkgs, p), exitCode |-> 0]

\* what the top-level statements do with the next package: one more Pkg, or the
\* constructor's exception, uncaught, ends the process with status 1
LoadResult(pkgs, p) ==
  IF p.kind = "throw"
  THEN [pc |-> "exited", packages |-> pkgs, exitCode |-> 1]
  ELSE [pc |-> IF Len(pkgs) + 1 = Len(DeclaredNames) THEN "start" ELSE "load",
        packages |-> Append(pkgs, p), exitCode |-> 0]

LoadPkg ==
  /\ pc = "load"
  /\ Len(packages) < Len(DeclaredNames)
  /\ LET name == DeclaredNames[Len(packages) + 1]
         r    == LoadResult(packages, Pkg(name, readdirSync(name)))
     IN /\ pc' = r.pc
        /\ packages' = r.packages
        /\ exitCode' = r.exitCode
  /\ UNCHANGED <<fsName, fsEntry, command, args, unhandledRejections, awaited, tsOutcome,
                 cfgIdx, step, written, failedAt>>
  /\ UNCHANGED <<devVars, callVars>>

\* process.exit(status)
Exit(status) ==
  /\ pc' = "exited"
  /\ exitCode' = status

\* start(), up to the call of the command's function
Start ==
  /\ pc = "start"
  /\ IF command # NoCommand /\ command \notin {"install", "--help"} /\ ~Installed(packages)
     THEN Exit(1) /\ UNCHANGED awaited
     ELSE IF cmdFn(command) = NoCommand \/ FnLength(cmdFn(command)) > Len(args)
     THEN Exit(1) /\ UNCHANGED awaited
     ELSE /\ pc' = cmdFn(command)
          /\ awaited' = TRUE
          /\ UNCHANGED exitCode
  /\ UNCHANGED <<packages, fsName, fsEntry, command, args, unhandledRejections, tsOutcome,
                 cfgIdx, step, written, failedAt>>
  /\ UNCHANGED <<devVars, callVars>>

\* listPackages, and "--help": () => help(0)
ListOrHelp ==
  /\ pc \in {"listPackages", "help"}
  /\ Exit(0)
  /\ UNCHANGED <<packages, fsName, fsEntry, command, args, unhandledRejections, awaited,
                 tsOutcome, cfgIdx, step, written, failedAt>>
  /\ UNCHANGED <<devVars, callVars>>

\* a function inherited from Object.prototype, called with this = null
InheritedCommand ==
  /\ StartsWith(pc, "Object.prototype")
  /\ Exit(IF InheritedReturns(pc) THEN 0 ELSE 1)
  /\ UNCHANGED <<packages, fsName, fsEntry, command, args, unhandledRejections, awaited,
                 tsOutcome, cfgIdx, step, written, failedAt>>
  /\ UNCHANGED <<devVars, callVars>>

\* release, commit, push, runCmd: git and shell commands, which succeed or throw
OtherCommand ==
  /\ pc \in {"release", "commit", "push", "runCmd"}
  /\ \E ok \in BOOLEAN : Exit(IF ok THEN 0 ELSE 1)
  /\ UNCHANGED <<packages, fsName, fsEntry, command, args, unhandledRejections, awaited,
                 tsOutcome, cfgIdx, step, written, failedAt>>
  /\ UNCHANGED <<devVars, callVars>>

\* what a package directory holds once install went through its clone loop
ClonedEntries == IF fsEntry.ok THEN {fsEntry} ELSE {e \in OddEntries : e.ok}

\* install(arg): help(1) on an argument that is neither falsy nor --ssh; git clone of
\* every missing package and yarn install, which succeed or throw; then build(),
\* whose promise install does not return
Install ==
  /\ pc = "install"
  /\ IF Len(args) > 0 /\ args[1] # "" /\ args[1] # "--ssh"
     THEN Exit(1) /\ UNCHANGED <<awaited, fsEntry>>
     ELSE \E outcome \in {"cloneThrows", "yarnThrows", "ok"} :
            /\ outcome = "cloneThrows" => ~Installed(packages)
            /\ IF outcome = "cloneThrows"
               THEN Exit(1) /\ UNCHANGED <<awaited, fsEntry>>
               ELSE /\ fsEntry' \in ClonedEntries
                    /\ IF outcome = "yarnThrows"
                       THEN Exit(1) /\ UNCHANGED awaited
                       ELSE pc' = "build" /\ awaited' = FALSE /\ UNCHANGED exitCode
  /\ UNCHANGED <<packages, fsName, command, args, unhandledRejections, tsOutcome,
                 cfgIdx, step, written, failedAt>>
  /\ UNCHANGED <<devVars, callVars>>

\* the exit status after build()'s promise is rejected: start's catch calls error
\* when the promise reached it; a promise nobody handles is the runtime's to judge
RejectionStatus(reachesCatch, policy) ==
  IF reachesCatch THEN 1 ELSE IF policy = "throw" THEN 1 ELSE 0

\* what tsBuild can meet: a clean emit, an emit with diagnostics, a skipped emit,
\* an exception of the compiler
TsOutcomes == {"ok", "diags", "skipped", "throw"}

\* tsBuild without its check of emitSkipped
tsBuildNeverFails(outcome) == FALSE

\* if (emitResult.emitSkipped) error("TS build failed")
tsBuildFails(outcome) == outcome = "skipped"

\* build(), to its first await: tsBuild(), then runRollup's first rollup call
Build ==
  /\ pc = "build"
  /\ \E outcome \in TsOutcomes :
       /\ tsOutcome' = outcome
       /\ IF outcome = "throw"
          THEN Exit(RejectionStatus(awaited, unhandledRejections))
               /\ UNCHANGED <<cfgIdx, step>>
          ELSE IF tsBuildFails(outcome)
          THEN Exit(1) /\ UNCHANGED <<cfgIdx, step>>
          ELSE /\ pc' = "runRollup"
               /\ cfgIdx' = 1
               /\ step' = "rollup"
               /\ UNCHANGED exitCode
  /\ UNCHANGED <<packages, fsName, fsEntry, command, args, unhandledRejections, awaited,
                 written, failedAt>>
  /\ UNCHANGED <<devVars, callVars>>

\* whether generate's output for a descriptor has a map: output.sourcemap
HasMap(config) == config.output.sourcemap

\* the awaited step after a step of runRollup, within one descriptor
NextStep(s) ==
  CASE s = "rollup"    -> "generate"
    [] s = "generate"  -> "mkdir"
    [] s = "mkdir"     -> "writeFile"
    [] s = "writeFile" -> "writeMap"
    [] OTHER           -> "rollup"

\* the step is the descriptor's last: the file's write, or its map's when it has one
LastStep(s, config) == IF HasMap(config) THEN s = "writeMap" ELSE s = "writeFile"

\* a throwing step rejects runRollup's promise; mkdir's has .catch(() => null)
Rejects(s) == s # "mkdir"

\* the path a write of runRollup goes to
WrittenPath(pkgs, w) ==
  LET file == Configs(pkgs)[w[1]].output.file
  IN IF w[2] = "map" THEN file \o ".map" ELSE file

\* one awaited step of runRollup: rollup, bundle.generate, fsp.mkdir, fsp.writeFile
\* of the file, fsp.writeFile of its map
RunRollup ==
  /\ pc = "runRollup"
  /\ \E ok \in BOOLEAN :
       IF ~ok /\ Rejects(step)
       THEN /\ failedAt' = cfgIdx
            /\ Exit(RejectionStatus(awaited, unhandledRejections))
            /\ UNCHANGED <<cfgIdx, step, written>>
       ELSE /\ UNCHANGED failedAt
            /\ written' = IF step = "writeFile" THEN written \cup {<<cfgIdx, "file">>}
                          ELSE IF step = "writeMap" THEN written \cup {<<cfgIdx, "map">>}
                          ELSE written
            /\ IF ~LastStep(step, Configs(packages)[cfgIdx])
               THEN step' = NextStep(step) /\ UNCHANGED <<cfgIdx, pc, exitCode>>
               ELSE IF cfgIdx = Len(Configs(packages))
               THEN Exit(0) /\ UNCHANGED <<cfgIdx, step>>
               ELSE cfgIdx' = cfgIdx + 1 /\ step' = "rollup" /\ UNCHANGED <<pc, exitCode>>
  /\ UNCHANGED <<packages, fsName, fsEntry, command, args, unhandledRejections, awaited,
                 tsOutcome>>
  /\ UNCHANGED <<devVars, callVars>>

-----------------------------------------------------------------------------
(* The dev pipeline: devserver's watchers, tsWatch, startServer.           *)

\* devserver registers two watchers for every buildable package; the model follows
\* the lanes of the first MaxDevPkgs of them
MaxDevPkgs == 2

\* a lane's result handles are counted up to MaxOpen
MaxOpen == 1

LaneKinds == {"code", "decl"}

Lanes ==
  {<<buildPackages(PlainRegistry)[i].name, k>> : i \in 1..MaxDevPkgs, k \in LaneKinds}

StartReport(name) == "Start bundling " \o name \o "..."

EndReport(name) == "Finished bundling " \o name

ErrorReport(kind, name) ==
  IF kind = "code" THEN "Bundling error (" \o name \o ")"
  ELSE "Decl bundling error (" \o name \o ")"

\* Reports with the code lane's START branch missing
ReportsNoStart(kind, name, code) ==
  IF kind = "code"
  THEN CASE code = "END"   -> <<EndReport(name)>>
         [] code = "ERROR" -> <<ErrorReport(kind, name)>>
         [] OTHER          -> <<>>
  ELSE CASE code = "ERROR" -> <<ErrorReport(kind, name)>>
         [] OTHER          -> <<>>

\* what the lane's "event" callback prints for an event code
Reports(kind, name, code) ==
  IF kind = "code"
  THEN CASE code = "START" -> <<StartReport(name)>>
         [] code = "END"   -> <<EndReport(name)>>
         [] code = "ERROR" -> <<ErrorReport(kind, name)>>
         [] OTHER          -> <<>>
  ELSE CASE code = "ERROR" -> <<ErrorReport(kind, name)>>
         [] OTHER          -> <<>>

\* whether the callback calls event.result.close() for an event code
Closes(kind, code) == code = "BUNDLE_END"

\* EndsProcess treating a watcher's error as the batch build treats one: error(e)
EndsProcessOnError(kind, code) == code = "ERROR"

\* whether the callback ends the process for an event code: it only prints
EndsProcess(kind, code) == FALSE

\* the "event" callback of lane l run on an event code
OnEvent(l, code) ==
  /\ cycleLog' = [cycleLog EXCEPT ![l] =
                    (IF code = "START" THEN <<>> ELSE @) \o Reports(l[2], l[1], code)]
  /\ open' = [open EXCEPT ![l] = IF Closes(l[2], code) /\ @ > 0 THEN @ - 1 ELSE @]
  /\ IF EndsProcess(l[2], code) THEN Exit(1) ELSE UNCHANGED <<pc, exitCode>>

\* devserver(): tsWatch(), the watchers, startServer(); when one of them throws,
\* the catch of start reports it and exits
Devserver ==
  /\ pc = "devserver"
  /\ \E ok \in BOOLEAN :
       IF ok
       THEN pc' = "serving" /\ tsWatching' = "watching" /\ UNCHANGED exitCode
       ELSE Exit(1) /\ UNCHANGED tsWatching
  /\ UNCHANGED <<packages, fsName, fsEntry, command, args, unhandledRejections,
                 awaited, tsOutcome, cfgIdx, step, written, failedAt>>
  /\ UNCHANGED <<phase, open, cycleLog, response, callVars>>

\* what one lane's event leaves alone
LaneFrame ==
  /\ UNCHANGED <<packages, fsName, fsEntry, command, args, unhandledRejections, awaited,
                 tsOutcome, cfgIdx, step, written, failedAt>>
  /\ UNCHANGED <<response, tsWatching, callVars>>

LaneCanStart(l) == pc = "serving" /\ phase[l] \in {"idle", "ended", "errored"}

\* the watcher's first run, or a change of a watched file: the watcher emits START
\* and, in the same tick, BUNDLE_START, for which the callbacks have no branch
WatchStart(l) ==
  /\ LaneCanStart(l)
  /\ phase' = [phase EXCEPT ![l] = "bundling"]
  /\ OnEvent(l, "START")
  /\ LaneFrame

\* the bundler finishes the cycle's bundle: its result handle exists from here on
WatchBundled(l) ==
  /\ pc = "serving"
  /\ phase[l] = "bundling"
  /\ open[l] < MaxOpen
  /\ phase' = [phase EXCEPT ![l] = "built"]
  /\ open' = [open EXCEPT ![l] = @ + 1]
  /\ UNCHANGED <<pc, exitCode, cycleLog>>
  /\ LaneFrame

\* BUNDLE_END, with the handle as event.result
WatchBundleEnd(l) ==
  /\ pc = "serving"
  /\ phase[l] = "built"
  /\ phase' = [phase EXCEPT ![l] = "closed"]
  /\ OnEvent(l, "BUNDLE_END")
  /\ LaneFrame

\* END: after the bundle's BUNDLE_END, and, from a watcher whose run survives its
\* task's error, after ERROR
WatchEnd(l) ==
  /\ pc = "serving"
  /\ phase[l] \in {"closed", "errored"}
  /\ phase' = [phase EXCEPT ![l] = "ended"]
  /\ OnEvent(l, "END")
  /\ LaneFrame

\* ERROR: the bundler threw before it had a bundle, or output generation threw
\* after it, and the event then carries the handle as event.result
WatchError(l) ==
  /\ pc = "serving"
  /\ phase[l] \in {"bundling", "built"}
  /\ phase' = [phase EXCEPT ![l] = "errored"]
  /\ OnEvent(l, "ERROR")
  /\ LaneFrame

ServerCanAnswer == pc = "serving"

\* the request callback of startServer: the module server answers, or serve-static
\* does, or its fallback answers 404
HandleRequest ==
  /\ ServerCanAnswer
  /\ \E kind \in {"module", "static", "none"} :
       response' = IF kind = "module" THEN "200 module"
                   ELSE IF kind = "static" THEN "200 static"
                   ELSE "404 Not found"
  /\ UNCHANGED <<procVars, phase, open, cycleLog, tsWatching, callVars>>

TsCanCheck == pc = "serving" /\ tsWatching = "watching"

\* tsWatch: a watched file changes and the compiler checks again
TsChange ==
  /\ TsCanCheck
  /\ tsWatching' = "checking"
  /\ UNCHANGED <<procVars, phase, open, cycleLog, response, callVars>>

\* tsWatch: the compiler reports its diagnostics and goes back to watching
TsReport ==
  /\ pc = "serving"
  /\ tsWatching = "checking"
  /\ tsWatching' = "watching"
  /\ UNCHANGED <<procVars, phase, open, cycleLog, response, callVars>>

-----------------------------------------------------------------------------
(* The library calls made while the process loads and builds: the          *)
(* constructor on a directory listing, the compiler on the resolver        *)
(* override, the bundler on a descriptor's externality predicate.          *)

\* the compiler asks for at most MaxNames module names in one call
MaxNames == 2

Specifiers ==
  {"@codemirror/" \o DeclaredNames[i] : i \in 1..Len(DeclaredNames)}
  \cup {"@codemirror/unknown", "@codemirror/", "@codemirror/state/src", "codemirror/state",
        "x@codemirror/state", "@codemirror/state ", "./state", "tslib", "lezer-tree",
        "@codemirror/lang_python"}

NameLists == UNION {[1..k -> Specifiers] : k \in 0..MaxNames}

ExtIds ==
  {p \o r : p \in {"", ".", "..", "./", "../", "/", "C:", "c:/", "1:", "_:", ":", "-:",
                   "@codemirror/", ".ts/"},
            r \in {"", "tslib", "state", "src/index.js", "x"}}

DirEntries ==
  {"index.ts", "state.ts", "python.ts", "one-dark.ts", "lang-python.ts", "helpers.ts",
   "index.d.ts", ".hidden.ts", "README.md"}

Dirents ==
  {[ok |-> FALSE, entries |-> {}]} \cup {[ok |-> TRUE, entries |-> S] : S \in SUBSET DirEntries}

\* new Pkg(name) on a directory listing
CallPkg ==
  /\ pc = "load"
  /\ callFn = "none"
  /\ \E i \in 1..Len(DeclaredNames), d \in Dirents :
       /\ callArg' = <<DeclaredNames[i], d>>
       /\ callRet' = Pkg(DeclaredNames[i], d)
  /\ callFn' = "Pkg"
  /\ UNCHANGED <<procVars, devVars>>

\* the compiler calls host.resolveModuleNames(names, ...)
CallResolve ==
  /\ pc = "build"
  /\ callFn = "none"
  /\ \E names \in NameLists :
       /\ callArg' = names
       /\ callRet' = resolveModuleNames(packages, names)
  /\ callFn' = "resolveModuleNames"
  /\ UNCHANGED <<procVars, devVars>>

\* the bundler calls config.external(id) for a descriptor of runRollup
CallExternal ==
  /\ pc = "build"
  /\ callFn = "none"
  /\ \E c \in 1..Len(Configs(packages)), id \in ExtIds :
       /\ callArg' = <<Configs(packages)[c].lane, id>>
       /\ callRet' = ConfigExternal(Configs(packages)[c], id)
  /\ callFn' = "external"
  /\ UNCHANGED <<procVars, devVars>>

-----------------------------------------------------------------------------
(* The specifications.                                                     *)

IdleDev ==
  /\ phase = [l \in Lanes |-> "idle"]
  /\ open = [l \in Lanes |-> 0]
  /\ cycleLog = [l \in Lanes |-> <<>>]
  /\ response = "none"

NoCall ==
  /\ callFn = "none"
  /\ callArg = <<>>
  /\ callRet = <<>>

NoBuild ==
  /\ exitCode = 0
  /\ tsOutcome = "notrun"
  /\ cfgIdx = 0
  /\ step = "none"
  /\ written = {}
  /\ failedAt = 0

\* the process as node starts it: a command line, a checkout, a runtime
Init ==
  /\ pc = "load"
  /\ packages = <<>>
  /\ fsName \in OddDirs
  /\ fsEntry \in OddEntries
  /\ command \in Commands
  /\ args \in IF command = NoCommand THEN {<<>>} ELSE ArgLists
  /\ unhandledRejections \in {"warn", "throw"}
  /\ awaited = FALSE
  /\ NoBuild
  /\ IdleDev
  /\ tsWatching = "off"
  /\ NoCall

Next ==
  \/ LoadPkg
  \/ Start
  \/ ListOrHelp
  \/ OtherCommand
  \/ InheritedCommand
  \/ Install
  \/ Build
  \/ RunRollup
  \/ Devserver

Spec == Init /\ [][Next]_vars

\* the process after devserver() returned, in a plain checkout
InitDev ==
  /\ pc = "serving"
  /\ packages = PlainRegistry
  /\ fsName = "state"
  /\ fsEntry = PlainDir
  /\ command = "devserver"
  /\ args = <<>>
  /\ unhandledRejections = "throw"
  /\ awaited = TRUE
  /\ NoBuild
  /\ IdleDev
  /\ tsWatching = "watching"
  /\ NoCall

\* each watcher's events arrive one at a time, its callback run to completion
NextDev ==
  \/ \E l \in Lanes : WatchStart(l)
  \/ \E l \in Lanes : WatchBundled(l)
  \/ \E l \in Lanes : WatchBundleEnd(l)
  \/ \E l \in Lanes : WatchEnd(l)
  \/ \E l \in Lanes : WatchError(l)
  \/ HandleRequest
  \/ TsChange
  \/ TsReport

SpecDev == InitDev /\ [][NextDev]_vars

\* the process while it loads (before the first Pkg) and while it builds
InitFn ==
  /\ pc \in {"load", "build"}
  /\ packages = IF pc = "load" THEN <<>> ELSE PlainRegistry
  /\ fsName = "state"
  /\ fsEntry = PlainDir
  /\ command = "build"
  /\ args = <<>>
  /\ unhandledRejections = "throw"
  /\ awaited = (pc = "build")
  /\ NoBuild
  /\ IdleDev
  /\ tsWatching = "off"
  /\ NoCall

NextFn ==
  \/ CallPkg
  \/ CallResolve
  \/ CallExternal

SpecFn == InitFn /\ [][NextFn]_vars

-----------------------------------------------------------------------------
(* The resolver override, the externality predicate, the main entry.       *)

\* the specifier is '@codemirror/<identifier>' and the identifier names a package of
\* the registry that has a main entry
BuildableSibling(pkgs, name) ==
  /\ StartsWith(name, "@codemirror/")
  /\ \E i \in 1..Len(pkgs) :
       pkgs[i].name = SubSeq(name, 13, Len(name)) /\ pkgs[i].main # Null

SiblingMain(pkgs, name) ==
  LET i == CHOOSE k \in 1..Len(pkgs) : pkgs[k].name = SubSeq(name, 13, Len(name))
  IN pkgs[i].main

\* C1: for every specifier '@codemirror/<identifier>' whose identifier names a known
\* buildable package, hyphenated names included, the resolver override answers the
\* package's main entry with isExternalLibraryImport = false; for every other
\* specifier it answers what the compiler's default resolution answers.
C1_ResolverOverride ==
  callFn = "resolveModuleNames" =>
    \A i \in 1..Len(callArg) :
      callRet[i] =
        IF BuildableSibling(packages, callArg[i])
        THEN [kind |-> "resolved", resolvedFileName |-> SiblingMain(packages, callArg[i]),
              isExternalLibraryImport |-> FALSE]
        ELSE TsResolveModuleName(callArg[i])

\* C2 as claimed: the externality predicate of both descriptors answers true
\* (external) for the runtime-support helper 'tslib'.
C2_TslibExternal ==
  (callFn = "external" /\ callArg[2] = "tslib") => callRet = TRUE

\* C2, amended: the externality predicate of both descriptors answers false (not
\* external: the bundle inlines it) for the runtime-support helper 'tslib'.
C2_TslibInlined ==
  (callFn = "external" /\ callArg[2] = "tslib") => callRet = FALSE

C2_Witness ==
  callFn = "external" /\ callArg = <<"decl", "tslib">> /\ callRet = FALSE

Letters == WordChars \ {"0", "1", "2", "3", "4", "5", "6", "7", "8", "9", "_"}

\* a relative path, a root-absolute path or an absolute-drive-style path
RelativeOrAbsolute(id) ==
  \/ StartsWith(id, "./")
  \/ StartsWith(id, "../")
  \/ StartsWith(id, "/")
  \/ Len(id) >= 2 /\ Char(id, 1) \in Letters /\ Char(id, 2) = ":"

\* C3: for every specifier other than the runtime-support helper, the externality
\* predicate answers false exactly when the specifier starts with './', '../' or '/',
\* or with a letter followed by ':', and true for every other specifier.
C3_ExternalExactly ==
  (callFn = "external" /\ callArg[2] # "tslib") =>
    (callRet = FALSE <=> RelativeOrAbsolute(callArg[2]))

\* a name made of a stem without a dot, and '.ts'
DotFreeStemTs(f) ==
  \E n \in 1..Len(f) :
    /\ Len(f) = n + 3
    /\ SubSeq(f, n + 1, n + 3) = ".ts"
    /\ \A i \in 1..n : Char(f, i) # "."

SrcPath(name, f) == Root \o "/" \o name \o "/src/" \o f

\* C4: over the recognized source files of a package's src directory (a dot-free stem
\* plus '.ts'), the constructor picks the only file when there is exactly one,
\* whatever its name; with more than one it picks index.ts if present, else the
\* file named after the package with a leading theme- or lang- stripped if present,
\* and else throws. (legacy-modes, the package without a main entry, resolves none.)
C4_MainEntry ==
  (callFn = "Pkg" /\ callArg[1] # "legacy-modes" /\ callArg[2].ok) =>
    LET name     == callArg[1]
        files    == {f \in callArg[2].entries : DotFreeStemTs(f)}
        stripped == (IF StartsWith(name, "theme-") THEN SubSeq(name, 7, Len(name))
                     ELSE IF StartsWith(name, "lang-") THEN SubSeq(name, 6, Len(name))
                     ELSE name) \o ".ts"
    IN /\ Cardinality(files) = 1 =>
            \A f \in files : callRet.kind = "pkg" /\ callRet.main = SrcPath(name, f)
       /\ Cardinality(files) > 1 =>
            IF "index.ts" \in files
            THEN callRet.kind = "pkg" /\ callRet.main = SrcPath(name, "index.ts")
            ELSE IF stripped \in files
            THEN callRet.kind = "pkg" /\ callRet.main = SrcPath(name, stripped)
            ELSE callRet.kind = "throw"

C4_Witness ==
  /\ callFn = "Pkg"
  /\ callArg = <<"lang-python", [ok |-> TRUE, entries |-> {"python.ts", "helpers.ts"}]>>
  /\ callRet.kind = "pkg"
  /\ callRet.main = "/codemirror.next/lang-python/src/python.ts"

-----------------------------------------------------------------------------
(* The batch build and the registry's lifecycle.                           *)

BundleStageStarted == cfgIdx > 0

\* C5: in the batch build the bundle stage starts if and only if tsBuild completed
\* with emit not skipped: a skipped emit ends the process with status 1 and nothing
\* is ever bundled or written; diagnostics with an emit that was not skipped do not
\* stop the build from going on to the bundle stage.
C5_BundleAfterCompile ==
  /\ BundleStageStarted <=> tsOutcome \in {"ok", "diags"}
  /\ tsOutcome = "skipped" => pc = "exited" /\ exitCode = 1 /\ written = {}

C5_Witness ==
  tsOutcome = "diags" /\ BundleStageStarted /\ written # {}

\* C6: when a bundler step throws during a batch bundle, on the build path and on
\* the install path alike, no descriptor after the failing one is bundled or written
\* and the process ends with exit status 1.
C6_BundlerErrorFatal ==
  failedAt > 0 =>
    /\ pc = "exited"
    /\ exitCode = 1
    /\ cfgIdx = failedAt
    /\ \A w \in written : w[1] <= failedAt

RegistryComplete ==
  [i \in 1..Len(packages) |-> packages[i].name] = DeclaredNames

CommandRuns == pc \notin {"load", "start", "exited"}

BuildStepRan == tsOutcome # "notrun" \/ cfgIdx > 0 \/ written # {}

\* C10: the registry of all declared packages is complete, or the process has ended
\* with a non-zero status, before any command function runs and so before any
\* compile or bundle step; once the load is over no command modifies the registry.
C10_RegistryBeforeCommands ==
  /\ [](/\ (CommandRuns \/ BuildStepRan \/ pc = "start") => RegistryComplete
        /\ (pc # "load" /\ ~RegistryComplete) => (pc = "exited" /\ exitCode = 1))
  /\ [][pc # "load" => packages' = packages]_vars

C10_Witness ==
  /\ RegistryComplete
  /\ pc = "runRollup"
  /\ written # {}
  /\ Len(buildPackages(packages)) = 35

-----------------------------------------------------------------------------
(* The dev pipeline.                                                       *)

IsOutcomeReport(r, l) == r = EndReport(l[1]) \/ r = ErrorReport(l[2], l[1])

\* the lane's cycle printed a 'finished' or 'errored' report only after its 'started'
StartedFirst(l) ==
  (\E i \in 1..Len(cycleLog[l]) : IsOutcomeReport(cycleLog[l][i], l)) =>
    /\ cycleLog[l][1] = StartReport(l[1])
    /\ ~IsOutcomeReport(cycleLog[l][1], l)

\* C7 as claimed: in each of a package's two lanes, within any bundling cycle the
\* 'started' report precedes the cycle's 'finished' or 'errored' report, under every
\* interleaving with the other lanes' events.
C7_StartedFirstBothLanes == \A l \in Lanes : StartedFirst(l)

\* C7, amended: in each package's code-bundle lane, within any bundling cycle the
\* 'started' report precedes the cycle's 'finished' or 'errored' report, under every
\* interleaving with the other lanes' events; the declaration lane prints no
\* 'started' and no 'finished' report, only its errors.
C7_StartedFirstCodeLane ==
  \A l \in Lanes :
    IF l[2] = "code" THEN StartedFirst(l)
    ELSE \A i \in 1..Len(cycleLog[l]) : cycleLog[l][i] = ErrorReport("decl", l[1])

C7_Witness ==
  \E l, m \in Lanes :
    /\ l[2] = "code"
    /\ phase[l] = "errored"
    /\ cycleLog[l] = <<StartReport(l[1]), ErrorReport("code", l[1])>>
    /\ m # l
    /\ phase[m] = "closed"

ErrorArrives(l) == phase[l] # "errored" /\ phase'[l] = "errored"

\* C8: in watch mode a bundler error in one lane is reported for that lane with its
\* package name and changes nothing else: every other lane, the compiler watcher and
\* the server are as they were and go on, and the lane itself can start a new cycle.
C8_ErrorStaysInLane ==
  [][\A l \in Lanes :
       ErrorArrives(l) =>
         /\ Len(cycleLog'[l]) > 0
         /\ cycleLog'[l][Len(cycleLog'[l])] = ErrorReport(l[2], l[1])
         /\ \A m \in Lanes \ {l} :
              phase'[m] = phase[m] /\ open'[m] = open[m] /\ cycleLog'[m] = cycleLog[m]
         /\ response' = response
         /\ tsWatching' = tsWatching
         /\ pc' = "serving"
         /\ LaneCanStart(l)'
         /\ ServerCanAnswer'
         /\ TsCanCheck' = TsCanCheck]_vars

C8_Witness ==
  \E l, m, n, o \in Lanes :
    /\ l[1] = m[1]
    /\ l[2] = "decl"
    /\ m[2] = "code"
    /\ n[1] # l[1]
    /\ n[2] = "decl"
    /\ o[1] = n[1]
    /\ o[2] = "code"
    /\ phase[l] = "errored"
    /\ cycleLog[l] = <<ErrorReport("decl", l[1])>>
    /\ phase[m] = "built"
    /\ phase[n] = "closed"
    /\ phase[o] = "errored"
    /\ cycleLog[o] = <<StartReport(o[1]), ErrorReport("code", o[1])>>
    /\ response = "200 module"
    /\ tsWatching = "checking"
    /\ pc = "serving"

\* C9: every result handle a cycle produces, in either lane, is closed before the
\* lane's next cycle starts: a lane never holds more than one unclosed handle, and
\* none while a new cycle is bundling.
C9_HandlesClosed ==
  \A l \in Lanes :
    /\ open[l] <= 1
    /\ phase[l] = "bundling" => open[l] = 0

=============================================================================
